---- MODULE Spec2Model ----
(***************************************************************************)
(* State-machine model of examples/ffi/c_callback_example.c: the callback  *)
(* invocation primitives and the numerical algorithms built on them.       *)
(*                                                                         *)
(* Host callbacks are opaque and may have side effects, so every callback  *)
(* invocation returns a nondeterministically chosen value and is recorded  *)
(* in the call log `calls` together with the arguments it received.        *)
(*                                                                         *)
(* C `double` is modelled as a small IEEE-754-like format: NaN, +inf, -inf *)
(* and the finite values n/Scale for |n| <= MaxMag.  Results are rounded   *)
(* to the nearest representable value (ties to even) and overflow to an    *)
(* infinity, as in IEEE-754.  -0.0 is not distinguished from +0.0 (they    *)
(* compare equal in C).  The literal 1e-10 is the value TolUlps/Scale of   *)
(* this format, so that the format has non-zero values below the           *)
(* tolerance, as double has.                                               *)
(***************************************************************************)
EXTENDS Integers, Sequences, FiniteSets, TLC

\* ----- bounds of the model -----
Scale    == 8      \* finite doubles are the multiples of 1/Scale
MaxInt   == 50     \* largest finite magnitude of the format (stands for DBL_MAX)
MaxLen   == 2      \* longest array handed to map_array
MaxSteps == 3      \* largest `steps` handed to integrate
MaxIter  == 2      \* largest `max_iter` handed to find_root
MaxCount == 3      \* largest `count` handed to sum_callback_results

\* the literal 1e-10 of find_root, in units of 1/Scale
TolUlps  == 2

MaxMag == MaxInt * Scale

\* ----- the double format -----
NaN  == [cls |-> "nan", v |-> 0]
PInf == [cls |-> "inf", v |-> 1]
NInf == [cls |-> "inf", v |-> -1]
NoValue == [cls |-> "void", v |-> 0]

Abs(n) == IF n < 0 THEN -n ELSE n
Sgn(n) == IF n < 0 THEN -1 ELSE IF n > 0 THEN 1 ELSE 0

\* the double nearest to n/Scale; magnitudes above the largest finite value overflow
Fin(n) == IF n > MaxMag THEN PInf
          ELSE IF n < -MaxMag THEN NInf
          ELSE [cls |-> "fin", v |-> n]

\* the integer nearest to p/q (q # 0), ties to even
RoundDiv(p, q) ==
    LET P  == Abs(p)
        Q  == Abs(q)
        fl == P \div Q
        rm == P % Q
        m  == IF 2 * rm < Q THEN fl
              ELSE IF 2 * rm > Q THEN fl + 1
              ELSE IF fl % 2 = 0 THEN fl ELSE fl + 1
    IN  Sgn(p) * Sgn(q) * m

IsNaN(a) == a.cls = "nan"
IsInf(a) == a.cls = "inf"
IsFin(a) == a.cls = "fin"

\* conversion int -> double
FromInt(i) == Fin(i * Scale)

Zero   == FromInt(0)
Two    == FromInt(2)
NegOne == FromInt(-1)
TOL    == Fin(TolUlps)

Neg(a) == IF IsNaN(a) THEN NaN ELSE [cls |-> a.cls, v |-> -a.v]

Add(a, b) ==
    IF IsNaN(a) \/ IsNaN(b) THEN NaN
    ELSE IF IsInf(a) /\ IsInf(b) THEN (IF a.v = b.v THEN a ELSE NaN)
    ELSE IF IsInf(a) THEN a
    ELSE IF IsInf(b) THEN b
    ELSE Fin(a.v + b.v)

Sub(a, b) == Add(a, Neg(b))

Mul(a, b) ==
    IF IsNaN(a) \/ IsNaN(b) THEN NaN
    ELSE IF IsInf(a) \/ IsInf(b)
         THEN (IF Sgn(a.v) * Sgn(b.v) = 0 THEN NaN
               ELSE IF Sgn(a.v) * Sgn(b.v) > 0 THEN PInf ELSE NInf)
    ELSE Fin(RoundDiv(a.v * b.v, Scale))

Div(a, b) ==
    IF IsNaN(a) \/ IsNaN(b) THEN NaN
    ELSE IF IsInf(a) /\ IsInf(b) THEN NaN
    ELSE IF IsInf(a) THEN (IF Sgn(a.v) * Sgn(b.v) < 0 THEN NInf ELSE PInf)
    ELSE IF IsInf(b) THEN Zero
    ELSE IF b.v = 0 THEN (IF a.v = 0 THEN NaN ELSE IF a.v > 0 THEN PInf ELSE NInf)
    ELSE Fin(RoundDiv(a.v * Scale, b.v))

Fabs(a) == IF IsNaN(a) THEN NaN ELSE [cls |-> a.cls, v |-> Abs(a.v)]

\* position on the extended real line, for the comparisons
Ord(a) == IF IsInf(a) THEN a.v * (MaxMag + 1) ELSE a.v

\* a < b ; every comparison with NaN is false
Less(a, b) == ~IsNaN(a) /\ ~IsNaN(b) /\ Ord(a) < Ord(b)
\* a >= b
GreaterEq(a, b) == ~IsNaN(a) /\ ~IsNaN(b) /\ Ord(a) >= Ord(b)

RECURSIVE SeqSum(_)
SeqSum(s) == IF s = <<>> THEN 0 ELSE s[1] + SeqSum(Tail(s))

\* ----- inputs and callback results the model draws from -----
DVals    == {NaN, PInf, NInf, Zero, Fin(1), Fin(-3), FromInt(1), FromInt(-1), Fin(MaxMag)}
IntVals  == {-1, 0, 1, 7, 2147483647}
AVals    == {Zero, FromInt(1), NaN}
MapRes   == {Zero, FromInt(2), NaN, PInf}
IBounds  == {Zero, FromInt(1), FromInt(-2), PInf, Fin(1)}
FVals    == {Zero, FromInt(1), FromInt(-1), Fin(3), Fin(MaxMag), NaN, PInf}
X0Vals   == {Zero, Fin(1), FromInt(2), NaN}
FRVals   == {Zero, Fin(1), Fin(-1), Fin(TolUlps), FromInt(1), FromInt(-2),
             Fin(MaxMag), NaN, PInf}
SumRes   == {-1, 0, 1, 5}

VARIABLES
    pc,     \* "idle", the loop a function is in, or "done" once it has returned
    fn,     \* the library function being executed
    args,   \* its parameters, as passed by the host
    loc,    \* its local variables (for map_array also the caller's buffer)
    calls,  \* the callback invocations it has made, in order
    out,    \* what it has written to stdout and stderr
    ret     \* the value it returned
vars == <<pc, fn, args, loc, calls, out, ret>>

Init ==
    /\ pc = "idle"
    /\ fn = "none"
    /\ args = <<>>
    /\ loc = <<>>
    /\ calls = <<>>
    /\ out = <<>>
    /\ ret = NoValue

\* one callback invocation as the log records it
Invocation(cb, arg, res) == [cb |-> cb, arg |-> arg, res |-> res]

Enter(f, a, l, c, o, r, p) ==
    /\ fn' = f
    /\ args' = a
    /\ loc' = l
    /\ calls' = c
    /\ out' = o
    /\ ret' = r
    /\ pc' = p

\* ----- invocation primitives (lines 41-85) -----

\* call_with_double: the callback is handed `value`, its result is returned
call_with_double_run(value, result) ==
    [calls |-> << Invocation("callback", <<value>>, result) >>,
     out   |-> << <<"stdout", "C: Calling callback with %.2f", <<value>> >>,
                  <<"stdout", "C: Callback returned %.2f", <<result>> >> >>,
     ret   |-> result]

call_with_double ==
    /\ pc = "idle"
    /\ \E value \in DVals, result \in DVals :
          LET run == call_with_double_run(value, result)
          IN  Enter("call_with_double", [value |-> value], [result |-> result],
                    run.calls, run.out, run.ret, "done")

call_with_two_doubles_args_swapped(a, b) == <<b, a>>

\* the argument list call_with_two_doubles passes to the callback
call_with_two_doubles_args(a, b) == <<a, b>>

call_with_two_doubles_run(a, b, result) ==
    [calls |-> << Invocation("callback", call_with_two_doubles_args(a, b), result) >>,
     out   |-> << <<"stdout", "C: Calling callback with %.2f and %.2f", <<a, b>> >>,
                  <<"stdout", "C: Callback returned %.2f", <<result>> >> >>,
     ret   |-> result]

call_with_two_doubles ==
    /\ pc = "idle"
    /\ \E a \in DVals, b \in DVals, result \in DVals :
          LET run == call_with_two_doubles_run(a, b, result)
          IN  Enter("call_with_two_doubles", [a |-> a, b |-> b], [result |-> result],
                    run.calls, run.out, run.ret, "done")

call_with_int ==
    /\ pc = "idle"
    /\ \E value \in IntVals, result \in IntVals :
          Enter("call_with_int", [value |-> value], [result |-> result],
                << Invocation("callback", <<value>>, result) >>,
                << <<"stdout", "C: Calling callback with %d", <<value>> >>,
                   <<"stdout", "C: Callback returned %d", <<result>> >> >>,
                result, "done")

call_simple ==
    /\ pc = "idle"
    /\ \E result \in IntVals :
          Enter("call_simple", <<>>, [result |-> result],
                << Invocation("callback", <<>>, result) >>,
                << <<"stdout", "C: Calling simple callback", <<>> >>,
                   <<"stdout", "C: Callback returned %d", <<result>> >> >>,
                result, "done")

call_void_callback ==
    /\ pc = "idle"
    /\ \E value \in IntVals :
          Enter("call_void_callback", [value |-> value], <<>>,
                << Invocation("callback", <<value>>, NoValue) >>,
                << <<"stdout", "C: Calling void callback with %d", <<value>> >>,
                   <<"stdout", "C: Void callback completed", <<>> >> >>,
                NoValue, "done")

\* ----- test helpers and self_test (lines 180-205) -----
test_double_function(x) == Mul(x, FromInt(2))

test_add_function(a, b) == Add(a, b)

self_test ==
    /\ pc = "idle"
    /\ LET v1   == FromInt(21)
           run1 == call_with_double_run(v1, test_double_function(v1))
           a2   == FromInt(15)
           b2   == FromInt(27)
           run2 == call_with_two_doubles_run(a2, b2, test_add_function(a2, b2))
       IN  Enter("self_test", <<>>, [result1 |-> run1.ret, result2 |-> run2.ret],
                 run1.calls \o run2.calls,
                 << <<"stdout", "=== C Callback Library Self-Test ===", <<>> >> >>
                   \o run1.out
                   \o << <<"stdout", "Test 1: %.2f (expected 42.00)", <<run1.ret>> >> >>
                   \o run2.out
                   \o << <<"stdout", "Test 2: %.2f (expected 42.00)", <<run2.ret>> >>,
                         <<"stdout", "Self-test completed", <<>> >> >>,
                 NoValue, "done")

\* ----- call_with_validation (lines 164-173) -----
call_with_validation_nan_only(result) ==
    IF IsNaN(result) THEN NegOne ELSE result

\* the value call_with_validation returns for a callback result
call_with_validation_result(result) ==
    IF IsNaN(result) \/ IsInf(result) THEN NegOne ELSE result

call_with_validation ==
    /\ pc = "idle"
    /\ \E value \in DVals, result \in DVals :
          Enter("call_with_validation", [value |-> value], [result |-> result],
                << Invocation("callback", <<value>>, result) >>,
                IF IsNaN(result) \/ IsInf(result)
                THEN << <<"stderr", "C: Callback returned invalid result", <<>> >> >>
                ELSE <<>>,
                call_with_validation_result(result), "done")

\* ----- map_array (lines 92-97) -----
\* every buffer of MaxLen + 1 cells: `length` never exceeds MaxLen, so the
\* last cell always lies beyond the mapped range
Buffers == [1..(MaxLen + 1) -> AVals]

map_array_cond_inclusive(i, length) == i <= length

\* the loop condition of map_array
map_array_cond(i, length) == i < length

map_array_store_next_cell(array, i, r) == [array EXCEPT ![i + 2] = r]

\* array[i] = r, on the 0-based index i of the C code
map_array_store(array, i, r) == [array EXCEPT ![i + 1] = r]

map_array_call ==
    /\ pc = "idle"
    /\ \E array \in Buffers, length \in -1..MaxLen :
          Enter("map_array", [array |-> array, length |-> length],
                [i |-> 0, array |-> array], <<>>,
                << <<"stdout", "C: Mapping over array of %d elements", <<length>> >> >>,
                NoValue, "map_array_loop")

map_array_iter ==
    /\ pc = "map_array_loop"
    /\ map_array_cond(loc.i, args.length)
    /\ \E r \in MapRes :
          /\ calls' = Append(calls, [cb |-> "callback", arg |-> <<loc.array[loc.i + 1]>>,
                                     res |-> r, idx |-> loc.i, seen |-> loc.array])
          /\ loc' = [i |-> loc.i + 1, array |-> map_array_store(loc.array, loc.i, r)]
    /\ UNCHANGED <<pc, fn, args, out, ret>>

map_array_exit ==
    /\ pc = "map_array_loop"
    /\ ~map_array_cond(loc.i, args.length)
    /\ pc' = "done"
    /\ UNCHANGED <<fn, args, loc, calls, out, ret>>

\* ----- integrate (lines 104-114) -----
\* h = (b - a) / steps
integrate_h(a, b, steps) == Div(Sub(b, a), FromInt(steps))

integrate_ends_not_halved(fa, fb) == Add(fa, fb)

\* (function(a) + function(b)) / 2.0
integrate_ends(fa, fb) == Div(Add(fa, fb), FromInt(2))

\* x = a + i * h
integrate_x(a, i, h) == Add(a, Mul(FromInt(i), h))

integrate_result_sum_only(sum, h) == sum

\* sum * h
integrate_result(sum, h) == Mul(sum, h)

\* C leaves the order in which the two operands of + are evaluated
\* unspecified, so either end point may be sampled first
integrate_call ==
    /\ pc = "idle"
    /\ \E a \in IBounds, b \in IBounds, steps \in -1..MaxSteps,
          fa \in FVals, fb \in FVals, first \in {"a", "b"} :
          Enter("integrate", [a |-> a, b |-> b, steps |-> steps],
                [h |-> integrate_h(a, b, steps), sum |-> integrate_ends(fa, fb), i |-> 1],
                IF first = "a"
                THEN << Invocation("function", <<a>>, fa), Invocation("function", <<b>>, fb) >>
                ELSE << Invocation("function", <<b>>, fb), Invocation("function", <<a>>, fa) >>,
                <<>>, NoValue, "integrate_loop")

integrate_iter ==
    /\ pc = "integrate_loop"
    /\ loc.i < args.steps
    /\ \E r \in FVals :
          LET x == integrate_x(args.a, loc.i, loc.h)
          IN  /\ calls' = Append(calls, Invocation("function", <<x>>, r))
              /\ loc' = [loc EXCEPT !.sum = Add(loc.sum, r), !.i = loc.i + 1]
    /\ UNCHANGED <<pc, fn, args, out, ret>>

integrate_exit ==
    /\ pc = "integrate_loop"
    /\ ~(loc.i < args.steps)
    /\ ret' = integrate_result(loc.sum, loc.h)
    /\ pc' = "done"
    /\ UNCHANGED <<fn, args, loc, calls, out>>

\* ----- find_root (lines 121-142) -----
find_root_cond_inclusive(i, max_iter) == i <= max_iter

\* the loop condition of find_root
find_root_cond(i, max_iter) == i < max_iter

find_root_body_assign_first(x, fx, dfx) ==
    IF Less(Fabs(dfx), TOL)
    THEN [brk |-> TRUE, x |-> x, divs |-> <<>>]
    ELSE LET x_new == Sub(x, Div(fx, dfx))
         IN  [brk |-> Less(Fabs(Sub(x_new, x)), TOL), x |-> x_new, divs |-> <<dfx>>]

find_root_body_zero_test(x, fx, dfx) ==
    IF dfx = Zero
    THEN [brk |-> TRUE, x |-> x, divs |-> <<>>]
    ELSE LET x_new == Sub(x, Div(fx, dfx))
         IN  IF Less(Fabs(Sub(x_new, x)), TOL)
             THEN [brk |-> TRUE, x |-> x, divs |-> <<dfx>>]
             ELSE [brk |-> FALSE, x |-> x_new, divs |-> <<dfx>>]

\* one pass through the loop body, given what f(x) and df(x) returned:
\* whether the loop is left by a break, the value of x afterwards, and the
\* divisors of the divisions that were executed
find_root_body(x, fx, dfx) ==
    IF Less(Fabs(dfx), TOL)
    THEN [brk |-> TRUE, x |-> x, divs |-> <<>>]
    ELSE LET x_new == Sub(x, Div(fx, dfx))
         IN  IF Less(Fabs(Sub(x_new, x)), TOL)
             THEN [brk |-> TRUE, x |-> x, divs |-> <<dfx>>]
             ELSE [brk |-> FALSE, x |-> x_new, divs |-> <<dfx>>]

find_root_call ==
    /\ pc = "idle"
    /\ \E x0 \in X0Vals, max_iter \in -1..MaxIter :
          Enter("find_root", [x0 |-> x0, max_iter |-> max_iter],
                [x |-> x0, i |-> 0, divs |-> <<>>], <<>>, <<>>, NoValue, "find_root_loop")

find_root_iter ==
    /\ pc = "find_root_loop"
    /\ find_root_cond(loc.i, args.max_iter)
    /\ \E fx \in FRVals, dfx \in FRVals :
          LET body == find_root_body(loc.x, fx, dfx)
          IN  /\ calls' = calls \o << Invocation("f", <<loc.x>>, fx),
                                      Invocation("df", <<loc.x>>, dfx) >>
              /\ loc' = [x |-> body.x,
                         i |-> IF body.brk THEN loc.i ELSE loc.i + 1,
                         divs |-> loc.divs \o body.divs]
              /\ pc' = IF body.brk THEN "done" ELSE "find_root_loop"
              /\ ret' = IF body.brk THEN body.x ELSE ret
    /\ UNCHANGED <<fn, args, out>>

find_root_exit ==
    /\ pc = "find_root_loop"
    /\ ~find_root_cond(loc.i, args.max_iter)
    /\ ret' = loc.x
    /\ pc' = "done"
    /\ UNCHANGED <<fn, args, loc, calls, out>>

\* ----- sum_callback_results (lines 147-155) -----
sum_callback_results_cond_inclusive(i, count) == i <= count

\* the loop condition of sum_callback_results
sum_callback_results_cond(i, count) == i < count

sum_callback_results_call ==
    /\ pc = "idle"
    /\ \E count \in -1..MaxCount :
          Enter("sum_callback_results", [count |-> count], [sum |-> Zero, i |-> 0],
                <<>>, <<>>, NoValue, "sum_loop")

sum_callback_results_iter ==
    /\ pc = "sum_loop"
    /\ sum_callback_results_cond(loc.i, args.count)
    /\ \E r \in SumRes :
          /\ calls' = Append(calls, Invocation("callback", <<loc.i>>, r))
          /\ loc' = [sum |-> Add(loc.sum, FromInt(r)), i |-> loc.i + 1]
    /\ UNCHANGED <<pc, fn, args, out, ret>>

sum_callback_results_exit ==
    /\ pc = "sum_loop"
    /\ ~sum_callback_results_cond(loc.i, args.count)
    /\ ret' = loc.sum
    /\ pc' = "done"
    /\ UNCHANGED <<fn, args, loc, calls, out>>

\* the function has returned to the host, which may call the library again
Return ==
    /\ pc = "done"
    /\ Enter("none", <<>>, <<>>, <<>>, <<>>, NoValue, "idle")

Next ==
    \/ call_with_double
    \/ call_with_two_doubles
    \/ call_with_int
    \/ call_simple
    \/ call_void_callback
    \/ self_test
    \/ call_with_validation
    \/ map_array_call
    \/ map_array_iter
    \/ map_array_exit
    \/ integrate_call
    \/ integrate_iter
    \/ integrate_exit
    \/ find_root_call
    \/ find_root_iter
    \/ find_root_exit
    \/ sum_callback_results_call
    \/ sum_callback_results_iter
    \/ sum_callback_results_exit
    \/ Return

Spec == Init /\ [][Next]_vars

\* ======================= properties =======================

Done(f) == pc = "done" /\ fn = f
Max0(n) == IF n < 0 THEN 0 ELSE n

\* ----- find_root, read off the call log -----
\* the k-th iteration: the x it started with, what f and df returned, and
\* the estimate x - fx/dfx
IterX(k)    == calls[2 * k - 1].arg[1]
IterFx(k)   == calls[2 * k - 1].res
IterDfx(k)  == calls[2 * k].res
IterXNew(k) == Sub(IterX(k), Div(IterFx(k), IterDfx(k)))
Iters       == Len(calls) \div 2
DerivSmall(k) == Less(Fabs(IterDfx(k)), TOL)
Converged(k)  == Less(Fabs(Sub(IterXNew(k), IterX(k))), TOL)

\* C1 (as claimed): an iteration with |dfx| >= 1e-10 and |x_new - x| < 1e-10
\* is the last one, and find_root returns that iteration's x_new.
C1_ReturnsXNew ==
    fn = "find_root" =>
      \A k \in 1..Iters :
        (GreaterEq(Fabs(IterDfx(k)), TOL) /\ Converged(k))
          => (k = Iters /\ pc = "done" /\ ret = IterXNew(k))

\* C1 (amended): an iteration with |dfx| >= 1e-10 and |x_new - x| < 1e-10 is
\* the last one, and find_root returns the x that iteration started with,
\* which lies within 1e-10 of x_new.
C1_ReturnsXOnConvergence ==
    fn = "find_root" =>
      \A k \in 1..Iters :
        (GreaterEq(Fabs(IterDfx(k)), TOL) /\ Converged(k))
          => (/\ k = Iters
              /\ pc = "done"
              /\ ret = IterX(k)
              /\ Less(Fabs(Sub(IterXNew(k), ret)), TOL))

C1_Witness ==
    /\ Done("find_root")
    /\ Iters = 2
    /\ GreaterEq(Fabs(IterDfx(2)), TOL)
    /\ Converged(2)
    /\ IterXNew(2) # IterX(2)

\* C10 (as claimed): an iteration that observes |dfx| < 1e-10 is the last
\* one, performs no division and find_root returns the x it started with;
\* every division is executed with a divisor of magnitude >= 1e-10.
C10_DivisorAtLeastTol ==
    fn = "find_root" =>
      /\ \A k \in 1..Iters :
            DerivSmall(k) => (/\ k = Iters
                              /\ pc = "done"
                              /\ ret = IterX(k)
                              /\ Len(loc.divs) = k - 1)
      /\ \A d \in 1..Len(loc.divs) : GreaterEq(Fabs(loc.divs[d]), TOL)

\* C10 (amended): an iteration that observes |dfx| < 1e-10 is the last one,
\* performs no division and find_root returns the x it started with; every
\* division is executed with a divisor that is NaN or of magnitude >= 1e-10.
C10_DivisorNotBelowTol ==
    fn = "find_root" =>
      /\ \A k \in 1..Iters :
            DerivSmall(k) => (/\ k = Iters
                              /\ pc = "done"
                              /\ ret = IterX(k)
                              /\ Len(loc.divs) = k - 1)
      /\ \A d \in 1..Len(loc.divs) :
            IsNaN(loc.divs[d]) \/ GreaterEq(Fabs(loc.divs[d]), TOL)

C10_Witness ==
    /\ Done("find_root")
    /\ Iters = 2
    /\ DerivSmall(2)
    /\ IterDfx(2) # Zero
    /\ IterX(2) # args.x0
    /\ Len(loc.divs) = 1

\* C8: find_root runs at most max_iter iterations, each calling f and then
\* df on the current x; when no stopping condition fires it returns the
\* estimate of the last iteration; with max_iter = 0 it returns x0 and
\* calls neither f nor df.
C8_BoundedIterations ==
    (fn = "find_root" /\ args.max_iter >= 0) =>
      /\ Len(calls) = 2 * Iters
      /\ Iters <= args.max_iter
      /\ \A k \in 1..Iters :
            /\ calls[2 * k - 1].cb = "f"
            /\ calls[2 * k].cb = "df"
            /\ calls[2 * k].arg = calls[2 * k - 1].arg
            /\ IterX(k) = IF k = 1 THEN args.x0 ELSE IterXNew(k - 1)
      /\ (pc = "done" /\ args.max_iter = 0) => (ret = args.x0 /\ calls = <<>>)
      /\ (pc = "done" /\ args.max_iter >= 1) =>
            /\ Iters >= 1
            /\ ~(DerivSmall(Iters) \/ Converged(Iters))
                  => (Iters = args.max_iter /\ ret = IterXNew(Iters))

C8_Witness ==
    /\ Done("find_root")
    /\ args.max_iter = MaxIter
    /\ Iters = MaxIter
    /\ ~(DerivSmall(Iters) \/ Converged(Iters))
    /\ IsFin(ret)
    /\ ret # args.x0

\* ----- integrate -----
RECURSIVE AddInOrder(_, _, _)
\* acc + calls[from].res + calls[from+1].res + ..., added left to right
AddInOrder(acc, from, to) ==
    IF from > to THEN acc
    ELSE AddInOrder(Add(acc, calls[from].res), from + 1, to)

\* C2 (as claimed): with equal bounds integrate returns 0, whatever the
\* callback, the bound and steps.
C2_EqualBoundsZero ==
    (Done("integrate") /\ args.a = args.b) => ret = Zero

\* C2 (amended): with equal finite bounds, steps # 0 and a finite
\* accumulated sum integrate returns 0; with equal bounds and steps = 0 it
\* returns NaN.
C2_EqualBoundsZeroWhenFinite ==
    (Done("integrate") /\ args.a = args.b) =>
      /\ (args.steps # 0 /\ IsFin(args.a) /\ IsFin(loc.sum)) => ret = Zero
      /\ args.steps = 0 => IsNaN(ret)

C2_Witness ==
    /\ Done("integrate")
    /\ args.a = args.b
    /\ args.a = FromInt(1)
    /\ args.steps = MaxSteps
    /\ IsFin(loc.sum)
    /\ loc.sum # Zero
    /\ ret = Zero

\* C6: for steps >= 1 integrate samples a and b, then a + i*h for
\* i = 1..steps-1 with h = (b - a) / steps, and returns
\* ((f(a) + f(b)) / 2 + the interior samples added in ascending i) * h;
\* for steps = 1 that is (f(a) + f(b)) / 2 * (b - a) with no interior sample.
C6_TrapezoidFormula ==
    (Done("integrate") /\ args.steps >= 1) =>
      LET h    == Div(Sub(args.b, args.a), FromInt(args.steps))
          ends == Div(Add(calls[1].res, calls[2].res), Two)
      IN  /\ Len(calls) = args.steps + 1
          /\ \/ calls[1].arg = <<args.a>> /\ calls[2].arg = <<args.b>>
             \/ calls[1].arg = <<args.b>> /\ calls[2].arg = <<args.a>>
          /\ \A i \in 1..(args.steps - 1) :
                calls[i + 2].arg = << Add(args.a, Mul(FromInt(i), h)) >>
          /\ ret = Mul(AddInOrder(ends, 3, Len(calls)), h)
          /\ args.steps = 1 =>
                ret = Mul(Div(Add(calls[1].res, calls[2].res), Two), Sub(args.b, args.a))

C6_Witness ==
    /\ Done("integrate")
    /\ args.steps = MaxSteps
    /\ args.a = Zero
    /\ args.b = FromInt(1)
    /\ IsFin(ret)
    /\ ret # Zero
    /\ calls[3].res # calls[4].res

\* ----- call_with_validation -----
\* C3: call_with_validation calls the callback once with value; a NaN or
\* infinite result gives -1.0, a finite result is returned unchanged, and
\* the value returned is always finite.
C3_Validation ==
    Done("call_with_validation") =>
      /\ Len(calls) = 1
      /\ calls[1].arg = <<args.value>>
      /\ (IsNaN(calls[1].res) \/ IsInf(calls[1].res)) => ret = NegOne
      /\ IsFin(calls[1].res) => ret = calls[1].res
      /\ IsFin(ret)

C3_Witness ==
    /\ Done("call_with_validation")
    /\ calls[1].res = NInf
    /\ ret = NegOne

\* ----- map_array -----
\* C4: after map_array, array[i] is the callback's result for the original
\* array[i] for every i in [0, n), the buffer keeps its length, no cell
\* outside [0, n) is written, and n = 0 leaves the buffer alone without
\* calling the callback.
C4_MapPostcondition ==
    Done("map_array") =>
      LET n == Max0(args.length)
      IN  /\ Len(calls) = n
          /\ DOMAIN loc.array = DOMAIN args.array
          /\ \A j \in DOMAIN args.array :
                IF j <= n
                THEN /\ calls[j].arg = <<args.array[j]>>
                     /\ loc.array[j] = calls[j].res
                ELSE loc.array[j] = args.array[j]
          /\ n = 0 => (loc.array = args.array /\ calls = <<>>)

C4_Witness ==
    /\ Done("map_array")
    /\ args.length = MaxLen
    /\ \A j \in 1..MaxLen : loc.array[j] # args.array[j]

\* C5: map_array calls the callback once per index in ascending order, and
\* at the call for index i the cells below i already hold the results and
\* the cells from i on still hold the original values.
C5_AscendingOrder ==
    fn = "map_array" =>
      /\ Len(calls) = loc.i
      /\ Len(calls) <= Max0(args.length)
      /\ pc = "done" => Len(calls) = Max0(args.length)
      /\ \A k \in 1..Len(calls) :
            /\ calls[k].idx = k - 1
            /\ \A j \in DOMAIN args.array :
                  calls[k].seen[j] = IF j < k THEN calls[j].res ELSE args.array[j]

C5_Witness ==
    /\ Done("map_array")
    /\ Len(calls) = MaxLen
    /\ calls[MaxLen].seen[1] # args.array[1]
    /\ calls[MaxLen].seen[MaxLen] = args.array[MaxLen]

\* ----- sum_callback_results -----
\* C7: sum_callback_results calls callback(0), ..., callback(count-1) once
\* each in ascending order and returns the sum of the results; for
\* count <= 0 it returns 0 without calling the callback.
C7_SumOfResults ==
    Done("sum_callback_results") =>
      /\ Len(calls) = Max0(args.count)
      /\ \A k \in 1..Len(calls) : calls[k].arg = <<k - 1>>
      /\ ret = FromInt(SeqSum([k \in 1..Len(calls) |-> calls[k].res]))
      /\ args.count <= 0 => (ret = Zero /\ calls = <<>>)

C7_Witness ==
    /\ Done("sum_callback_results")
    /\ args.count = MaxCount
    /\ ret = FromInt(5 * MaxCount - 6)

\* ----- invocation primitives -----
\* C9: every invocation primitive calls its callback exactly once with the
\* arguments it was given and returns the callback's result unchanged;
\* self_test obtains 42.0 from both of its calls.
C9_PassThrough ==
    /\ Done("call_with_double") =>
          (Len(calls) = 1 /\ calls[1].arg = <<args.value>> /\ ret = calls[1].res)
    /\ Done("call_with_two_doubles") =>
          (Len(calls) = 1 /\ calls[1].arg = <<args.a, args.b>> /\ ret = calls[1].res)
    /\ Done("call_with_int") =>
          (Len(calls) = 1 /\ calls[1].arg = <<args.value>> /\ ret = calls[1].res)
    /\ Done("call_simple") =>
          (Len(calls) = 1 /\ calls[1].arg = <<>> /\ ret = calls[1].res)
    /\ Done("call_void_callback") =>
          (Len(calls) = 1 /\ calls[1].arg = <<args.value>>)
    /\ Done("self_test") =>
          /\ Len(calls) = 2
          /\ calls[1].arg = <<FromInt(21)>>
          /\ calls[2].arg = <<FromInt(15), FromInt(27)>>
          /\ loc.result1 = FromInt(42)
          /\ loc.result2 = FromInt(42)

C9_Witness ==
    /\ Done("call_with_two_doubles")
    /\ args.a = NaN
    /\ args.b = Fin(1)
    /\ ret = PInf

====
